---- MODULE Spec2Model ----
(***************************************************************************)
(* A model of bolay (src/src/bolay/__init__.py): the SPoint/SRect geometry *)
(* objects, RectBoundingBox, COneLineTextBox and                           *)
(* CPdf.TuDxDyFromOrientationFmt.                                          *)
(*                                                                         *)
(* Coordinates are Python floats.  A float is modelled as a binary         *)
(* floating-point number of MantBits significant bits, rounded to nearest, *)
(* ties to even, and is stored as an integer count of quanta of 1/One.     *)
(* SPoint and SRect are mutable objects: they live in a heap and an SRect  *)
(* holds the identities of its two SPoints, so that sharing is visible.    *)
(***************************************************************************)
EXTENDS Integers, Sequences, FiniteSets, TLC

VARIABLES heap, log, bb, oltb, draw, page

vars == <<heap, log, bb, oltb, draw, page>>

(***************************************************************************)
(* Bounds of the model.                                                    *)
(***************************************************************************)
MantBits == 4
GuardBits == 3
MaxOps == 2
MaxRects == 3
MaxDraws == 2

(***************************************************************************)
(* Python float arithmetic.                                                *)
(***************************************************************************)
\* the quanta in 1.0
One == 2 ^ (MantBits + GuardBits)

\* the first integer of more than MantBits bits
MantMax == 2 ^ MantBits

\* the exponents a float's step may take
Exps == 0 .. 30 - MantBits

\* the exponent of the least step (a power of two, in quanta) at which q has at
\* most MantBits significant bits
StepExp(q) ==
    CHOOSE e \in Exps : /\ q \div (2 ^ e) < MantMax
                        /\ e > 0 => q \div (2 ^ (e - 1)) >= MantMax

\* m steps and a remainder rem of a step of d, to the nearest step, ties to even
Nearest(m, rem, d) ==
    IF 2 * rem > d \/ (2 * rem = d /\ m % 2 = 1) THEN m + 1 ELSE m

\* a/den (a >= 0, den > 0) rounded to a multiple of the step s
RoundAt(a, den, s) == Nearest(a \div (den * s), a % (den * s), den * s) * s

\* num/den (den > 0) rounded to the nearest float, ties to even
RoundQ(num, den) ==
    IF num < 0 THEN -RoundAt(-num, den, 2 ^ StepExp((-num) \div den))
    ELSE RoundAt(num, den, 2 ^ StepExp(num \div den))

\* whether num/den is itself a float
IsExactQ(num, den) == RoundQ(num, den) * den = num

FAdd(a, b) == RoundQ(a + b, 1)
FSub(a, b) == RoundQ(a - b, 1)
FMul(a, b) == RoundQ(a * b, One)
FDiv(a, b) == IF b < 0 THEN RoundQ(-(a * One), -b) ELSE RoundQ(a * One, b)
FHalf(a)   == RoundQ(a, 2)

ExactAdd(a, b) == IsExactQ(a + b, 1)
ExactSub(a, b) == IsExactQ(a - b, 1)
ExactMul(a, b) == IsExactQ(a * b, One)
ExactDiv(a, b) == IF b < 0 THEN IsExactQ(-(a * One), -b) ELSE IsExactQ(a * One, b)
ExactHalf(a)   == IsExactQ(a, 2)

\* n units as a float
U(n) == n * One

Min2(a, b) == IF a <= b THEN a ELSE b
Max2(a, b) == IF a >= b THEN a ELSE b

\* an optional argument: None, or a value
None == <<>>
Some(v) == <<v>>

(***************************************************************************)
(* The heap: SPoint objects and SRect objects, named by their index, and   *)
(* the ghost flag exact, which is TRUE while every float operation of the  *)
(* current call has returned the exact real result.                        *)
(***************************************************************************)
EmptyHeap == [pts |-> <<>>, rects |-> <<>>, exact |-> TRUE]

Began(h) == [h EXCEPT !.exact = TRUE]
Mark(h, ok) == [h EXCEPT !.exact = @ /\ ok]

\* SPoint.Shift
PointShift(h, p, dX, dY) ==
    [h EXCEPT !.pts[p] = [x |-> FAdd(@.x, dX), y |-> FAdd(@.y, dY)],
              !.exact = @ /\ ExactAdd(h.pts[p].x, dX) /\ ExactAdd(h.pts[p].y, dY)]

\* SRect(x, y, dX, dY): two new points
NewRect(h, x, y, dX, dY) ==
    [h EXCEPT !.pts = @ \o <<[x |-> x, y |-> y], [x |-> FAdd(x, dX), y |-> FAdd(y, dY)]>>,
              !.rects = Append(@, [posMin |-> Len(h.pts) + 1, posMax |-> Len(h.pts) + 2]),
              !.exact = @ /\ ExactAdd(x, dX) /\ ExactAdd(y, dY)]

xMin(h, r) == h.pts[h.rects[r].posMin].x
yMin(h, r) == h.pts[h.rects[r].posMin].y
xMax(h, r) == h.pts[h.rects[r].posMax].x
yMax(h, r) == h.pts[h.rects[r].posMax].y

SetxMin(h, r, xNew) == [h EXCEPT !.pts[h.rects[r].posMin].x = xNew]
SetyMin(h, r, yNew) == [h EXCEPT !.pts[h.rects[r].posMin].y = yNew]
SetxMax(h, r, xNew) == [h EXCEPT !.pts[h.rects[r].posMax].x = xNew]
SetyMax(h, r, yNew) == [h EXCEPT !.pts[h.rects[r].posMax].y = yNew]

\* the properties x, y, dX, dY
GetX(h, r)  == xMin(h, r)
GetY(h, r)  == yMin(h, r)
GetDX(h, r) == FSub(xMax(h, r), xMin(h, r))
GetDY(h, r) == FSub(yMax(h, r), yMin(h, r))

Shift(h, r, dX, dY) ==
    PointShift(PointShift(h, h.rects[r].posMin, dX, dY), h.rects[r].posMax, dX, dY)


\* a setter of x that moves the minimum corner alone
SetXOfMinOnly(h, r, xNew) == SetxMin(h, r, xNew)

SetX(h, r, xNew) ==
    Shift(Mark(h, ExactSub(xNew, xMin(h, r))), r, FSub(xNew, xMin(h, r)), 0)

SetY(h, r, yNew) ==
    Shift(Mark(h, ExactSub(yNew, yMin(h, r))), r, 0, FSub(yNew, yMin(h, r)))

SetDX(h, r, dXNew) ==
    [h EXCEPT !.pts[h.rects[r].posMax].x = FAdd(xMin(h, r), dXNew),
              !.exact = @ /\ ExactAdd(xMin(h, r), dXNew)]

SetDY(h, r, dYNew) ==
    [h EXCEPT !.pts[h.rects[r].posMax].y = FAdd(yMin(h, r), dYNew),
              !.exact = @ /\ ExactAdd(yMin(h, r), dYNew)]

\* one statement of SRect.Set: if v is not None: self.<property> = v
SetXIf(h, r, v) == IF v # None THEN SetX(h, r, v[1]) ELSE h
SetYIf(h, r, v) == IF v # None THEN SetY(h, r, v[1]) ELSE h
SetDXIf(h, r, v) == IF v # None THEN SetDX(h, r, v[1]) ELSE h
SetDYIf(h, r, v) == IF v # None THEN SetDY(h, r, v[1]) ELSE h

\* SRect.Set(x, y, dX, dY), a = <<x, y, dX, dY>>, each None or Some(v)
Set(h, r, a) == SetDYIf(SetDXIf(SetYIf(SetXIf(h, r, a[1]), r, a[2]), r, a[3]), r, a[4])


\* a copy that shares the corner points of its original
ShallowCopy(h, r) == [h EXCEPT !.rects = Append(@, h.rects[r])]

\* copy.deepcopy(self): a new SRect with new SPoints of the same coordinates
DeepCopy(h, r) ==
    [h EXCEPT !.pts = @ \o <<h.pts[h.rects[r].posMin], h.pts[h.rects[r].posMax]>>,
              !.rects = Append(@, [posMin |-> Len(h.pts) + 1, posMax |-> Len(h.pts) + 2])]

\* SRect.Copy(x, y, dX, dY); the new rectangle is the last of the heap
Copy(h, r, a) == Set(DeepCopy(h, r), Len(h.rects) + 1, a)

Inset(h, r, dS) ==
    PointShift(PointShift(h, h.rects[r].posMin, dS, dS), h.rects[r].posMax, -dS, -dS)


\* an Outset that moves the corners the way Inset does
OutsetInward(h, r, dS) == Inset(h, r, dS)

Outset(h, r, dS) == Inset(h, r, -dS)

Stretch(h, r, dXLeft, dYTop, dXRight, dYBottom) ==
    PointShift(PointShift(h, h.rects[r].posMin, dXLeft, dYTop),
               h.rects[r].posMax, dXRight, dYBottom)

\* the bounds of rectangle r, by value
Bounds(h, r) == <<xMin(h, r), yMin(h, r), xMax(h, r), yMax(h, r)>>

(***************************************************************************)
(* Rectangles under a caller: a rectangle is constructed, then at most     *)
(* MaxOps methods are called on it and on its copies.  log keeps, for each *)
(* call, the method, its receiver, its arguments and the heap before it.   *)
(***************************************************************************)
Idle == <<>>

InitX  == {U(3), -U(5)}
InitY  == {U(1)}
InitDX == {U(12), -U(2)}
InitDY == {U(4)}

ArgX  == {None, Some(U(5))}
ArgY  == {None, Some(-U(3))}
ArgDX == {None, Some(U(2)), Some(U(13))}
ArgDY == {None, Some(U(7))}
SetArgs == {<<x, y, dX, dY>> : x \in ArgX, y \in ArgY, dX \in ArgDX, dY \in ArgDY}
CopyArgs == {<<None, None, None, None>>, <<Some(U(5)), None, None, None>>,
             <<None, None, Some(U(13)), Some(U(7))>>}
ShiftVals == {0, U(14)}
InsetVals == {-U(14), 0, U(1), U(13)}
StretchArgs == {<<0, 0, 0, 0>>, <<-U(12), 0, 0, U(1)>>, <<0, U(2), U(14), 0>>,
                <<U(1), U(1), -U(1), -U(1)>>}
CornerVals == {U(6)}

InitRect ==
    /\ \E x \in InitX, y \in InitY, dX \in InitDX, dY \in InitDY :
           heap = Began(NewRect(EmptyHeap, x, y, dX, dY))
    /\ log = <<>>
    /\ bb = Idle /\ oltb = Idle /\ draw = Idle /\ page = Idle

Rects == 1 .. Len(heap.rects)

CanCall == Len(log) < MaxOps

Logged(op, r, a) ==
    /\ log' = Append(log, [op |-> op, r |-> r, a |-> a, pre |-> heap])
    /\ UNCHANGED <<bb, oltb, draw, page>>

DoSet ==
    /\ CanCall
    /\ \E r \in Rects, a \in SetArgs :
        /\ heap' = Set(Began(heap), r, a)
        /\ Logged("Set", r, a)

DoCopy ==
    /\ CanCall
    /\ \E r \in Rects, a \in CopyArgs :
        /\ Len(heap.rects) < 2
        /\ heap' = Copy(Began(heap), r, a)
        /\ Logged("Copy", r, a)

DoShift ==
    /\ CanCall
    /\ \E r \in Rects, dX \in ShiftVals, dY \in ShiftVals :
        /\ heap' = Shift(Began(heap), r, dX, dY)
        /\ Logged("Shift", r, <<dX, dY>>)

DoInset ==
    /\ CanCall
    /\ \E r \in Rects, dS \in InsetVals :
        /\ heap' = Inset(Began(heap), r, dS)
        /\ Logged("Inset", r, <<dS>>)

DoOutset ==
    /\ CanCall
    /\ \E r \in Rects, dS \in InsetVals :
        /\ heap' = Outset(Began(heap), r, dS)
        /\ Logged("Outset", r, <<dS>>)

DoStretch ==
    /\ CanCall
    /\ \E r \in Rects, a \in StretchArgs :
        /\ heap' = Stretch(Began(heap), r, a[1], a[2], a[3], a[4])
        /\ Logged("Stretch", r, a)

\* the setters of xMin, yMin, xMax, yMax
DoSetCorner ==
    /\ CanCall
    /\ \E r \in Rects, v \in CornerVals, which \in {"xMin", "yMin", "xMax", "yMax"} :
        /\ heap' = CASE which = "xMin" -> SetxMin(Began(heap), r, v)
                     [] which = "yMin" -> SetyMin(Began(heap), r, v)
                     [] which = "xMax" -> SetxMax(Began(heap), r, v)
                     [] which = "yMax" -> SetyMax(Began(heap), r, v)
        /\ Logged(which, r, <<v>>)

NextRect ==
    \/ DoSet
    \/ DoCopy
    \/ DoShift
    \/ DoInset
    \/ DoOutset
    \/ DoStretch
    \/ DoSetCorner

SpecRect == InitRect /\ [][NextRect]_vars

\* the heap after the i-th logged call
After(i) == IF i < Len(log) THEN log[i + 1].pre ELSE heap

(***************************************************************************)
(* C1.  SRect.Set.                                                         *)
(***************************************************************************)
\* what Set(a) leaves in x, y, dX, dY of rectangle r, from heap h0 to heap h1:
\* the argument where one was given, the value before where none was
SetReadsBack(h0, h1, r, a) ==
    /\ GetX(h1, r)  = IF a[1] # None THEN a[1][1] ELSE GetX(h0, r)
    /\ GetY(h1, r)  = IF a[2] # None THEN a[2][1] ELSE GetY(h0, r)
    /\ GetDX(h1, r) = IF a[3] # None THEN a[3][1] ELSE GetDX(h0, r)
    /\ GetDY(h1, r) = IF a[4] # None THEN a[4][1] ELSE GetDY(h0, r)

\* C1 as stated: after every Set, each of x, y, dX, dY equals its argument when
\* one was given and its value before the call when none was (so x and y
\* translate the rectangle and dX, dY move posMax alone).
C1_SetReadsBack ==
    \A i \in 1 .. Len(log) :
        log[i].op = "Set" => SetReadsBack(log[i].pre, After(i), log[i].r, log[i].a)

\* C1 as amended: the same whenever every float addition and subtraction of the
\* call was exact; and, rounding or not, a coordinate whose arguments were all
\* omitted keeps its posMin and posMax, and dX and dY never move posMin.
C1_SetReadsBackWhenExact ==
    \A i \in 1 .. Len(log) :
        log[i].op = "Set" =>
            LET h0 == log[i].pre
                h1 == After(i)
                r  == log[i].r
                a  == log[i].a
            IN  /\ h1.exact => SetReadsBack(h0, h1, r, a)
                /\ a[1] = None => xMin(h1, r) = xMin(h0, r)
                /\ a[2] = None => yMin(h1, r) = yMin(h0, r)
                /\ a[1] = None /\ a[3] = None => xMax(h1, r) = xMax(h0, r)
                /\ a[2] = None /\ a[4] = None => yMax(h1, r) = yMax(h0, r)

\* a Set of x, y and dX, all of whose arithmetic was exact, that moved both corners
C1_Witness ==
    \E i \in 1 .. Len(log) :
        /\ log[i].op = "Set"
        /\ log[i].a[1] # None /\ log[i].a[2] # None /\ log[i].a[3] # None
        /\ After(i).exact
        /\ xMin(After(i), log[i].r) # xMin(log[i].pre, log[i].r)
        /\ GetDX(After(i), log[i].r) # GetDX(log[i].pre, log[i].r)

(***************************************************************************)
(* C2.  Inset and Outset.                                                  *)
(***************************************************************************)
\* calls i and i+1 are Inset(d) then Outset(d), or Outset(d) then Inset(d), on
\* one rectangle
InversePair(i) ==
    /\ \/ log[i].op = "Inset" /\ log[i + 1].op = "Outset"
       \/ log[i].op = "Outset" /\ log[i + 1].op = "Inset"
    /\ log[i].r = log[i + 1].r
    /\ log[i].a = log[i + 1].a

\* C2 as stated: Inset(d) then Outset(d), and Outset(d) then Inset(d), leave
\* posMin and posMax exactly as they were.
C2_InsetOutsetRestores ==
    \A i \in 1 .. Len(log) - 1 :
        InversePair(i) => Bounds(After(i + 1), log[i].r) = Bounds(log[i].pre, log[i].r)

\* C2 as amended: they do whenever the four float additions of the first call
\* were exact.
C2_InsetOutsetRestoresWhenExact ==
    \A i \in 1 .. Len(log) - 1 :
        InversePair(i) /\ After(i).exact =>
            Bounds(After(i + 1), log[i].r) = Bounds(log[i].pre, log[i].r)

\* an exact Inset(d), d # 0, then Outset(d), on a rectangle of negative width
C2_Witness ==
    \E i \in 1 .. Len(log) - 1 :
        /\ InversePair(i) /\ After(i).exact
        /\ log[i].op = "Inset"
        /\ log[i].a[1] # 0
        /\ xMax(log[i].pre, log[i].r) < xMin(log[i].pre, log[i].r)

(***************************************************************************)
(* C3.  SRect.Copy.                                                        *)
(***************************************************************************)
\* C3: Copy leaves its receiver as it was and returns a rectangle with the bounds
\* Set would have given the receiver; and no later call on one rectangle changes
\* the bounds of another.
C3_CopyIndependent ==
    \A i \in 1 .. Len(log) :
        LET h0 == log[i].pre
            h1 == After(i)
            r  == log[i].r
        IN  IF log[i].op = "Copy"
            THEN /\ \A q \in 1 .. Len(h0.rects) : Bounds(h1, q) = Bounds(h0, q)
                 /\ Len(h1.rects) = Len(h0.rects) + 1
                 /\ Bounds(h1, Len(h1.rects)) = Bounds(Set(h0, r, log[i].a), r)
            ELSE \A q \in 1 .. Len(h0.rects) : q # r => Bounds(h1, q) = Bounds(h0, q)

\* a Copy with arguments, then a call that moved one of the two rectangles
C3_Witness ==
    /\ Len(log) = 2
    /\ log[1].op = "Copy" /\ log[1].a[1] # None
    /\ log[2].op # "Copy"
    /\ Bounds(heap, log[2].r) # Bounds(log[2].pre, log[2].r)

(***************************************************************************)
(* RectBoundingBox(iRect), one step at a time.  bb.kind is what iRect is:  *)
(* a list, a tuple, or an iterator (a generator included), which is true   *)
(* in a condition whether or not it has anything to yield.  bb.input holds *)
(* the rectangles it yields, bb.i the position of the iterator.            *)
(***************************************************************************)
NoArgs == <<None, None, None, None>>

Kinds == {"list", "tuple", "iterator"}

InRects == {<<U(2), U(1), U(3), U(3)>>, <<-U(4), U(6), U(9), -U(2)>>,
            <<U(1), -U(1), U(16), U(1)>>, <<U(3), U(2), -U(1), U(6)>>}

RECURSIVE Build(_, _)
Build(h, s) ==
    IF s = <<>> THEN h
    ELSE Build(NewRect(h, s[1][1], s[1][2], s[1][3], s[1][4]), Tail(s))

InitBBox ==
    /\ \E n \in 0 .. MaxRects : \E s \in [1 .. n -> InRects], kind \in Kinds :
           /\ heap = Began(Build(EmptyHeap, s))
           /\ bb = [kind |-> kind, input |-> [j \in 1 .. n |-> j], pc |-> "call",
                    i |-> 1, ret |-> 0, raised |-> "", pre |-> Began(Build(EmptyHeap, s))]
    /\ log = <<>> /\ oltb = Idle /\ draw = Idle /\ page = Idle

\* not iRect
Not(kind, input) == kind \in {"list", "tuple"} /\ Len(input) = 0

\* the four statements of the loop body
CoverXMin(h, r, q) == SetxMin(h, r, Min2(xMin(h, r), xMin(h, q)))
CoverYMin(h, r, q) == SetyMin(h, r, Min2(yMin(h, r), yMin(h, q)))

\* a loop body that never moves the right edge
CoverXMaxKept(h, r, q) == h

CoverXMax(h, r, q) == SetxMax(h, r, Max2(xMax(h, r), xMax(h, q)))
CoverYMax(h, r, q) == SetyMax(h, r, Max2(yMax(h, r), yMax(h, q)))

\* one pass of the loop body: the result r grows to cover rectNext
Cover(h, r, rectNext) ==
    CoverYMax(CoverXMax(CoverYMin(CoverXMin(h, r, rectNext), r, rectNext), r, rectNext),
              r, rectNext)

\* if not iRect: return SRect()
BBoxEmpty ==
    /\ bb # Idle /\ bb.pc = "call"
    /\ Not(bb.kind, bb.input)
    /\ heap' = NewRect(heap, 0, 0, 0, 0)
    /\ bb' = [bb EXCEPT !.pc = "done", !.ret = Len(heap.rects) + 1]
    /\ UNCHANGED <<log, oltb, draw, page>>

\* next(iterRect) on an iterator with nothing to yield raises StopIteration
BBoxStop ==
    /\ bb # Idle /\ bb.pc = "call"
    /\ ~Not(bb.kind, bb.input)
    /\ bb.i > Len(bb.input)
    /\ bb' = [bb EXCEPT !.pc = "done", !.raised = "StopIteration"]
    /\ UNCHANGED <<heap, log, oltb, draw, page>>

\* rectReturn = next(iterRect).Copy()
BBoxFirst ==
    /\ bb # Idle /\ bb.pc = "call"
    /\ ~Not(bb.kind, bb.input)
    /\ bb.i <= Len(bb.input)
    /\ heap' = Copy(heap, bb.input[bb.i], NoArgs)
    /\ bb' = [bb EXCEPT !.pc = "loop", !.ret = Len(heap.rects) + 1, !.i = @ + 1]
    /\ UNCHANGED <<log, oltb, draw, page>>

\* for rectNext in iterRect
BBoxNext ==
    /\ bb # Idle /\ bb.pc = "loop"
    /\ bb.i <= Len(bb.input)
    /\ heap' = Cover(heap, bb.ret, bb.input[bb.i])
    /\ bb' = [bb EXCEPT !.i = @ + 1]
    /\ UNCHANGED <<log, oltb, draw, page>>

\* return rectReturn
BBoxReturn ==
    /\ bb # Idle /\ bb.pc = "loop"
    /\ bb.i > Len(bb.input)
    /\ bb' = [bb EXCEPT !.pc = "done"]
    /\ UNCHANGED <<heap, log, oltb, draw, page>>

NextBBox ==
    \/ BBoxEmpty
    \/ BBoxStop
    \/ BBoxFirst
    \/ BBoxNext
    \/ BBoxReturn

SpecBBox == InitBBox /\ [][NextBBox]_vars

SetMin(S) == CHOOSE v \in S : \A w \in S : v <= w
SetMax(S) == CHOOSE v \in S : \A w \in S : v >= w

Inputs == {bb.input[j] : j \in 1 .. Len(bb.input)}

\* the SPoint objects of rectangle r
PointsOf(h, r) == {h.rects[r].posMin, h.rects[r].posMax}

(***************************************************************************)
(* C4.  RectBoundingBox of a non-empty input.                              *)
(***************************************************************************)
\* C4: for a non-empty input the result's corners are the least posMin and the
\* greatest posMax of the inputs, coordinate by coordinate, whatever their order
\* (for one rectangle, its own bounds); no input is modified; and the result is
\* a new rectangle with points of its own.
C4_BoundingBox ==
    bb.pc = "done" /\ Len(bb.input) > 0 =>
        /\ bb.raised = ""
        /\ xMin(heap, bb.ret) = SetMin({xMin(bb.pre, q) : q \in Inputs})
        /\ yMin(heap, bb.ret) = SetMin({yMin(bb.pre, q) : q \in Inputs})
        /\ xMax(heap, bb.ret) = SetMax({xMax(bb.pre, q) : q \in Inputs})
        /\ yMax(heap, bb.ret) = SetMax({yMax(bb.pre, q) : q \in Inputs})
        /\ \A q \in Inputs : Bounds(heap, q) = Bounds(bb.pre, q)
        /\ bb.ret \notin Inputs
        /\ \A q \in Inputs : PointsOf(heap, bb.ret) \cap PointsOf(heap, q) = {}

\* a finished call on three rectangles whose result is none of them
C4_Witness ==
    /\ bb.pc = "done" /\ Len(bb.input) = 3
    /\ \A q \in Inputs : Bounds(heap, bb.ret) # Bounds(heap, q)

(***************************************************************************)
(* C5.  RectBoundingBox of an empty input.                                 *)
(***************************************************************************)
\* C5 as stated: for every empty input, an iterator with nothing to yield
\* included, the call raises nothing and returns the zero rectangle at the origin.
C5_EmptyGivesZeroRect ==
    bb.pc = "done" /\ Len(bb.input) = 0 =>
        /\ bb.raised = ""
        /\ bb.ret # 0
        /\ Bounds(heap, bb.ret) = <<0, 0, 0, 0>>

(***************************************************************************)
(* CFontInstance and COneLineTextBox.  A font is its raw cap height (the   *)
(* descriptor's CapHeight, in 1/1000 of the font size); a text is the sum  *)
(* of its glyph widths (in 1/1000 of the font size) as typed, cw, and as   *)
(* reshaped and reordered for display when it holds right-to-left          *)
(* characters, cwShaped.  The string width the PDF library reports is      *)
(* that sum scaled by the font size in points and by the unit scale k.     *)
(***************************************************************************)
PtPerInch == 72
CapUnits == 1000
GlyphUnits == 1000
k == 72

\* CFontInstance(pdf, fontkey, dYFont) for a font of raw cap height capRaw
FontInstance(capRaw, dYFont) ==
    [capRaw |-> capRaw,
     dYFont |-> dYFont,
     dPtFont |-> RoundQ(dYFont * PtPerInch, 1),
     dYCap |-> RoundQ(RoundQ(capRaw * dYFont, 1), CapUnits)]

\* pdf.get_string_width(strText) with the font set at dPtFont points
StringWidth(cw, dPtFont) == RoundQ(cw * dPtFont, GlyphUnits * k)

FHasAnyRtl(text) == text.rtl

\* the glyph widths of the string measured and drawn
DrawnWidths(text) == IF FHasAnyRtl(text) THEN text.cwShaped ELSE text.cw

\* whether Python takes an optional number as true
Truthy(opt) == opt # None /\ opt[1] # 0

\* max(0.0, v)
Max0(v) == IF v > 0 THEN v ELSE 0

\* dSMargin or max(0.0, (self.rect.dY - self.dYCap) / 2.0)
MarginOf(dSMargin, dY, dYCap) ==
    IF Truthy(dSMargin) THEN dSMargin[1] ELSE Max0(FHalf(FSub(dY, dYCap)))

\* the box of font instance fonti and margin m around rect, and the heap with its
\* rectMargin, self.rect.Copy().Inset(self.dSMargin), the last rectangle of the heap
BoxOf(h, rect, fonti, m) ==
    [heap |-> Inset(Copy(h, rect, NoArgs), Len(h.rects) + 1, m),
     box  |-> [fonti |-> fonti, rect |-> rect, dYCap |-> fonti.dYCap,
               dSMargin |-> m, rectMargin |-> Len(h.rects) + 1]]

\* COneLineTextBox(pdf, rect, fontkey, dYFont, dSMargin)
NewTextBox(h, rect, capRaw, dYFont, dSMargin) ==
    BoxOf(h, rect, FontInstance(capRaw, dYFont),
          MarginOf(dSMargin, GetDY(h, rect), FontInstance(capRaw, dYFont).dYCap))

\* the heap without the objects made after the first nR rectangles
Keep(h, nR) == [h EXCEPT !.pts = SubSeq(@, 1, 2 * nR), !.rects = SubSeq(@, 1, nR)]

\* whether the properties dX of rectangles rm and rt are read exactly
ReadDX(h, rm, rt) ==
    ExactSub(xMax(h, rm), xMin(h, rm)) /\ ExactSub(xMax(h, rt), xMin(h, rt))

ReadDY(h, rm, rt) ==
    ExactSub(yMax(h, rm), yMin(h, rm)) /\ ExactSub(yMax(h, rt), yMin(h, rt))

\* the x given to rectText (rt) in the usable area rm
TextX(h, rm, rt, jh) ==
    CASE jh = "Left"   -> GetX(h, rm)
      [] jh = "Center" -> FAdd(GetX(h, rm), FHalf(FSub(GetDX(h, rm), GetDX(h, rt))))
      [] jh = "Right"  -> FSub(FAdd(GetX(h, rm), GetDX(h, rm)), GetDX(h, rt))

\* whether every float operation of TextX is exact
TextXExact(h, rm, rt, jh) ==
    CASE jh = "Left"   -> TRUE
      [] jh = "Center" -> /\ ReadDX(h, rm, rt)
                          /\ ExactSub(GetDX(h, rm), GetDX(h, rt))
                          /\ ExactHalf(FSub(GetDX(h, rm), GetDX(h, rt)))
                          /\ ExactAdd(GetX(h, rm), FHalf(FSub(GetDX(h, rm), GetDX(h, rt))))
      [] jh = "Right"  -> /\ ReadDX(h, rm, rt)
                          /\ ExactAdd(GetX(h, rm), GetDX(h, rm))
                          /\ ExactSub(FAdd(GetX(h, rm), GetDX(h, rm)), GetDX(h, rt))


\* a vertical placement that takes every jv for JV.Top
TextYTop(h, rm, rt, jv) == FAdd(GetY(h, rm), GetDY(h, rt))

\* the y given to rectText (rt) in the usable area rm
TextY(h, rm, rt, jv) ==
    CASE jv = "Bottom" -> FAdd(GetY(h, rm), GetDY(h, rm))
      [] jv = "Middle" -> FAdd(GetY(h, rm), FHalf(FAdd(GetDY(h, rm), GetDY(h, rt))))
      [] jv = "Top"    -> FAdd(GetY(h, rm), GetDY(h, rt))

\* whether every float operation of TextY is exact
TextYExact(h, rm, rt, jv) ==
    /\ ReadDY(h, rm, rt)
    /\ CASE jv = "Bottom" -> ExactAdd(GetY(h, rm), GetDY(h, rm))
         [] jv = "Middle" -> /\ ExactAdd(GetDY(h, rm), GetDY(h, rt))
                             /\ ExactHalf(FAdd(GetDY(h, rm), GetDY(h, rt)))
                             /\ ExactAdd(GetY(h, rm), FHalf(FAdd(GetDY(h, rm), GetDY(h, rt))))
         [] jv = "Top"    -> ExactAdd(GetY(h, rm), GetDY(h, rt))


\* a shrink pass that keeps the font size
NotReduced(dYFont, usable, dXText) == dYFont

\* rReduce * self.fonti.dYFont
Reduced(dYFont, usable, dXText) == FMul(FDiv(usable, dXText), dYFont)


\* a shrink pass that doubles the font size
Grown(fonti, usable, dXText) ==
    FontInstance(fonti.capRaw, FAdd(fonti.dYFont, fonti.dYFont))

\* the font after the shrink pass
Shrunk(fonti, usable, dXText) ==
    FontInstance(fonti.capRaw, Reduced(fonti.dYFont, usable, dXText))

\* whether every float operation from the font size to the width measured after
\* the shrink pass is exact
ShrinkExact(cw, fonti, usable, dXText) ==
    /\ IsExactQ(fonti.dYFont * PtPerInch, 1)
    /\ IsExactQ(cw * fonti.dPtFont, GlyphUnits * k)
    /\ ExactDiv(usable, dXText)
    /\ ExactMul(FDiv(usable, dXText), fonti.dYFont)
    /\ IsExactQ(Reduced(fonti.dYFont, usable, dXText) * PtPerInch, 1)
    /\ IsExactQ(cw * Shrunk(fonti, usable, dXText).dPtFont, GlyphUnits * k)

\* rectText = SRect(0, 0, dXText, self.dYCap), the new last rectangle
WithText(h, dXText, dYCap) == NewRect(Began(h), 0, 0, dXText, dYCap)

\* rectText.x = ...
PutX(h, rm, rt, jh) == SetX(Mark(h, TextXExact(h, rm, rt, jh)), rt, TextX(h, rm, rt, jh))

\* rectText.y = ...
PutY(h, rm, rt, jv) ==
    SetY(Mark(Began(h), TextYExact(h, rm, rt, jv)), rt, TextY(h, rm, rt, jv))

\* rectText.Copy().Shift(dY = -rectText.dY), the new last rectangle
Returned(h, rt) ==
    Shift(Mark(Copy(h, rt, NoArgs), ExactSub(yMax(h, rt), yMin(h, rt))),
          Len(h.rects) + 1, 0, -GetDY(h, rt))

\* the end of RectDrawText: hY is the heap when the text is drawn, hR the heap
\* at the return
Finish(nR, box, out, exactH, hY, hR) ==
    [heap |-> Keep(hR, nR),
     box  |-> box,
     out  |-> out @@ [raised |-> "",
                      anchor |-> <<GetX(hY, nR + 1), GetY(hY, nR + 1)>>,
                      ret |-> Bounds(hR, nR + 2),
                      exactH |-> exactH, exactV |-> hR.exact]]

\* RectDrawText from rectText.x on: hX is the heap after it
PlaceY(nR, box, a, out, hX) ==
    Finish(nR, box, out, hX.exact,
           PutY(hX, box.rectMargin, nR + 1, a.jv),
           Returned(PutY(hX, box.rectMargin, nR + 1, a.jv), nR + 1))

\* RectDrawText from rectText on, with the font and the width it ends with
Place(h, box, a, out) ==
    PlaceY(Len(h.rects), box, a, out,
           PutX(WithText(h, out.dXText, box.dYCap), box.rectMargin, Len(h.rects) + 1, a.jh))

\* RectDrawText from the first measurement on
Fit(h, box, a, cw, dXText0, usable) ==
    IF a.fShrinkToFit /\ dXText0 > usable
    THEN IF dXText0 = 0
         THEN [heap |-> h, box |-> box,
               out |-> [raised |-> "ZeroDivisionError", shrunk |-> FALSE,
                        usable |-> usable, dXText0 |-> dXText0, dXText |-> dXText0,
                        anchor |-> <<0, 0>>, ret |-> <<0, 0, 0, 0>>,
                        exactS |-> TRUE, exactH |-> TRUE, exactV |-> TRUE]]
         ELSE Place(h,
                    [box EXCEPT !.fonti = Shrunk(box.fonti, usable, dXText0),
                                !.dYCap = Shrunk(box.fonti, usable, dXText0).dYCap],
                    a,
                    [shrunk |-> TRUE, usable |-> usable, dXText0 |-> dXText0,
                     dXText |-> StringWidth(cw, Shrunk(box.fonti, usable, dXText0).dPtFont),
                     exactS |-> ShrinkExact(cw, box.fonti, usable, dXText0)])
    ELSE Place(h, box, a,
               [shrunk |-> FALSE, usable |-> usable, dXText0 |-> dXText0,
                dXText |-> dXText0, exactS |-> TRUE])

\* COneLineTextBox.RectDrawText(strText, color, jh, jv, fShrinkToFit, haloa),
\* a = [text, jh, jv, fShrinkToFit, halo]
RectDrawText(h, box, a) ==
    Fit(h, box, a, DrawnWidths(a.text),
        StringWidth(DrawnWidths(a.text), box.fonti.dPtFont), GetDX(h, box.rectMargin))

\* the modes of the pdf.text calls of RectDrawText, in order
TextCalls(raised, halo) ==
    IF raised # "" THEN <<>> ELSE IF halo THEN <<"STROKE", "FILL">> ELSE <<"FILL">>

\* the boxes constructed: <<rect, raw cap height, dYFont, dSMargin>>
RectA == <<U(1), U(1), U(4), U(2)>>
RectB == <<U(2), 0, U(3), U(1)>>
Margins == {None, Some(0), Some(One \div 4), Some(U(2))}
BoxArgs == {<<RectA, capRaw, U(1), m>> : capRaw \in {0, 700}, m \in Margins}
             \cup {<<RectB, 500, One \div 2, m>> : m \in Margins}

Texts == {[rtl |-> FALSE, cw |-> 0, cwShaped |-> 0],
          [rtl |-> FALSE, cw |-> 2000, cwShaped |-> 2000],
          [rtl |-> FALSE, cw |-> 4000, cwShaped |-> 4000],
          [rtl |-> FALSE, cw |-> 5000, cwShaped |-> 5000],
          [rtl |-> TRUE, cw |-> 3500, cwShaped |-> 3000]}

\* the calls made: <<jh, jv, fShrinkToFit, haloa given>>
DrawArgs == {<<"Left", "Middle", FALSE, FALSE>>, <<"Left", "Top", TRUE, FALSE>>,
             <<"Left", "Bottom", TRUE, TRUE>>, <<"Center", "Middle", TRUE, TRUE>>,
             <<"Center", "Bottom", FALSE, FALSE>>, <<"Center", "Top", FALSE, FALSE>>,
             <<"Right", "Bottom", TRUE, FALSE>>, <<"Right", "Top", FALSE, TRUE>>,
             <<"Right", "Middle", TRUE, FALSE>>}

InitText ==
    /\ \E b \in BoxArgs :
         \E new \in {NewTextBox(NewRect(EmptyHeap, b[1][1], b[1][2], b[1][3], b[1][4]),
                                1, b[2], b[3], b[4])} :
           /\ heap = Began(new.heap)
           /\ oltb = [box |-> new.box, argMargin |-> b[4], argFont |-> b[3], n |-> 0]
    /\ draw = Idle
    /\ log = <<>> /\ bb = Idle /\ page = Idle

DoRectDrawText ==
    /\ oltb # Idle /\ oltb.n < MaxDraws
    /\ \E text \in Texts, d \in DrawArgs :
         \E a \in {[text |-> text, jh |-> d[1], jv |-> d[2], fShrinkToFit |-> d[3],
                    halo |-> d[4]]} :
           \E res \in {RectDrawText(Began(heap), oltb.box, a)} :
             /\ heap' = Began(res.heap)
             /\ oltb' = [oltb EXCEPT !.box = res.box, !.n = @ + 1]
             /\ draw' = [a |-> a, out |-> res.out, pre |-> oltb.box, heapPre |-> heap,
                         texts |-> TextCalls(res.out.raised, a.halo)]
    /\ UNCHANGED <<log, bb, page>>

NextText == DoRectDrawText

SpecText == InitText /\ [][NextText]_vars

\* a RectDrawText call has returned
Drawn == draw # Idle /\ draw.out.raised = ""

\* the call was made with fShrinkToFit on a text measured wider than the usable width
Overflowed == draw # Idle /\ draw.a.fShrinkToFit /\ draw.out.dXText0 > draw.out.usable

\* the rectMargin of the box, as <<xMin, yMin, xMax, yMax>>
Usable == Bounds(heap, oltb.box.rectMargin)

\* C6: a shrink-to-fit call on a text measured wider than the usable width returns
\* a rectangle whose width is at most the usable width.
C6_ShrinkFits ==
    Overflowed =>
        /\ draw.out.raised = ""
        /\ FSub(draw.out.ret[3], draw.out.ret[1]) <= draw.out.usable

\* C6 (amended): such a call raises ZeroDivisionError exactly when the measured
\* width is 0; otherwise it returns, and the returned width is at most the usable
\* width whenever no float operation of the shrink pass and of the horizontal
\* placement rounded.
C6_ShrinkFitsWhenExact ==
    Overflowed =>
        /\ draw.out.raised = "ZeroDivisionError" <=> draw.out.dXText0 = 0
        /\ draw.out.raised = "" <=> draw.out.dXText0 # 0
        /\ draw.out.raised = "" /\ draw.out.exactS /\ draw.out.exactH =>
               FSub(draw.out.ret[3], draw.out.ret[1]) <= draw.out.usable

C6_Witness ==
    /\ Overflowed /\ Drawn /\ draw.out.shrunk
    /\ draw.out.exactS /\ draw.out.exactH
    /\ draw.out.usable > 0
    /\ FSub(draw.out.ret[3], draw.out.ret[1]) <= draw.out.usable

\* the rectangle rect of the heap inset by m
InsetBy(rect, m) == Bounds(Inset(Began(heap), rect, m), rect)

\* C7: a box constructed with an explicit margin m, 0 included, has rectMargin =
\* rect inset by m on every side; with the margin omitted the margin is
\* max(0, (rect.dY - cap height) / 2), which is rect.dY / 2 for a cap height of 0.
C7_ExplicitMargin ==
    oltb # Idle /\ oltb.n = 0 =>
        /\ oltb.argMargin # None =>
               /\ oltb.box.dSMargin = oltb.argMargin[1]
               /\ Usable = InsetBy(oltb.box.rect, oltb.argMargin[1])
        /\ oltb.argMargin = None =>
               /\ oltb.box.dSMargin
                    = Max0(FHalf(FSub(GetDY(heap, oltb.box.rect), oltb.box.dYCap)))
               /\ Usable = InsetBy(oltb.box.rect, oltb.box.dSMargin)
               /\ oltb.box.dYCap = 0 =>
                      oltb.box.dSMargin = FHalf(GetDY(heap, oltb.box.rect))

\* the placement of the returned rectangle ret in the usable area rm for jh
PlacedH(ret, rm, jh) ==
    CASE jh = "Left"   -> ret[1] = rm[1]
      [] jh = "Right"  -> ret[3] = rm[3]
      [] jh = "Center" -> ret[1] + ret[3] = rm[1] + rm[3]

\* the placement of the returned rectangle ret in the usable area rm for jv
PlacedV(ret, rm, jv) ==
    CASE jv = "Top"    -> ret[2] = rm[2]
      [] jv = "Bottom" -> ret[4] = rm[4]
      [] jv = "Middle" -> ret[2] + ret[4] = rm[2] + rm[4]

\* C9: the returned rectangle has the measured width (after any shrink) and the
\* current cap height, is placed in rectMargin as jh and jv say, and the anchor
\* of the drawing calls is its left edge and its bottom edge; for an empty text
\* the width is 0.
C9_Placement ==
    Drawn =>
        /\ draw.out.ret[3] - draw.out.ret[1] = draw.out.dXText
        /\ draw.out.ret[4] - draw.out.ret[2] = oltb.box.dYCap
        /\ PlacedH(draw.out.ret, Usable, draw.a.jh)
        /\ PlacedV(draw.out.ret, Usable, draw.a.jv)
        /\ draw.out.anchor = <<draw.out.ret[1], draw.out.ret[4]>>
        /\ DrawnWidths(draw.a.text) = 0 => draw.out.ret[3] = draw.out.ret[1]

\* C9 (amended): all of that holds when no float operation of the placement
\* rounded; in every case the anchor's x is the returned left edge, JH.Left puts
\* that edge on rectMargin's left edge, and the width measured for an empty text is 0.
C9_PlacementWhenExact ==
    Drawn =>
        /\ draw.out.exactH /\ draw.out.exactV =>
               /\ draw.out.ret[3] - draw.out.ret[1] = draw.out.dXText
               /\ draw.out.ret[4] - draw.out.ret[2] = oltb.box.dYCap
               /\ PlacedH(draw.out.ret, Usable, draw.a.jh)
               /\ PlacedV(draw.out.ret, Usable, draw.a.jv)
               /\ draw.out.anchor = <<draw.out.ret[1], draw.out.ret[4]>>
               /\ DrawnWidths(draw.a.text) = 0 => draw.out.ret[3] = draw.out.ret[1]
        /\ draw.out.anchor[1] = draw.out.ret[1]
        /\ draw.a.jh = "Left" => draw.out.ret[1] = Usable[1]
        /\ DrawnWidths(draw.a.text) = 0 => draw.out.dXText = 0

C9_Witness ==
    /\ Drawn /\ draw.out.exactH /\ draw.out.exactV
    /\ draw.a.jh = "Center" /\ draw.a.jv = "Middle"
    /\ draw.out.dXText > 0 /\ oltb.box.dYCap > 0
    /\ draw.out.ret[1] > Usable[1]
    /\ draw.out.ret[1] + draw.out.ret[3] = Usable[1] + Usable[3]
    /\ draw.out.ret[2] + draw.out.ret[4] = Usable[2] + Usable[4]

\* one RectDrawText call on a box of positive usable width
C10_Call ==
    /\ oltb # Idle /\ oltb'.n = oltb.n + 1
    /\ GetDX(heap, oltb.box.rectMargin) > 0

C10_Step ==
    C10_Call =>
        /\ oltb'.box.fonti.dYFont <= oltb.box.fonti.dYFont
        /\ oltb'.box.dYCap <= oltb.box.dYCap
        /\ oltb'.box.fonti # oltb.box.fonti \/ oltb'.box.dYCap # oltb.box.dYCap =>
               /\ draw'.a.fShrinkToFit
               /\ draw'.out.dXText0 > draw'.out.usable
        /\ draw'.a.fShrinkToFit /\ draw'.out.dXText0 > draw'.out.usable =>
               oltb'.box.fonti.dYFont < oltb.box.fonti.dYFont
        /\ draw'.out.dXText0
             = StringWidth(DrawnWidths(draw'.a.text), oltb.box.fonti.dPtFont)
        /\ oltb'.box.dYCap = oltb'.box.fonti.dYCap
        /\ oltb'.box.rect = oltb.box.rect
        /\ oltb'.box.rectMargin = oltb.box.rectMargin
        /\ Bounds(heap', oltb.box.rect) = Bounds(heap, oltb.box.rect)
        /\ Bounds(heap', oltb.box.rectMargin) = Bounds(heap, oltb.box.rectMargin)

\* C10: over the RectDrawText calls on a box of positive usable width the font
\* size and the cap height never increase; a call changes them only with
\* fShrinkToFit on a text wider than the usable width, and then the font size gets
\* strictly smaller; each call measures at the size the one before left; rect and
\* rectMargin never change.
C10_FontNeverGrows == [][C10_Step]_vars

C10_Witness ==
    /\ draw # Idle /\ oltb.n = MaxDraws
    /\ ~draw.a.fShrinkToFit
    /\ draw.pre.fonti.dYFont < oltb.argFont
    /\ oltb.box.fonti = draw.pre.fonti
    /\ draw.out.usable > 0
    /\ StringWidth(DrawnWidths(draw.a.text), FontInstance(draw.pre.fonti.capRaw, oltb.argFont).dPtFont)
         > draw.out.dXText0

(***************************************************************************)
(* CPdf.TuDxDyFromOrientationFmt.  A string is a sequence of one-character *)
(* strings; a format is None, a name or a pair of sizes in the document's  *)
(* unit.  Sizes in points are held in quanta like every other float, and   *)
(* the division by k rounds.                                               *)
(***************************************************************************)
UpperCase == <<"A", "B", "C", "D", "E", "F", "G", "H", "I", "J", "K", "L", "M",
               "N", "O", "P", "Q", "R", "S", "T", "U", "V", "W", "X", "Y", "Z">>
LowerCase == <<"a", "b", "c", "d", "e", "f", "g", "h", "i", "j", "k", "l", "m",
               "n", "o", "p", "q", "r", "s", "t", "u", "v", "w", "x", "y", "z">>

\* str.lower() of one character
LowerChar(c) ==
    IF \E i \in DOMAIN UpperCase : UpperCase[i] = c
    THEN LowerCase[CHOOSE i \in DOMAIN UpperCase : UpperCase[i] = c]
    ELSE c


\* an orientation compared as typed
NotLowered(str) == str

\* strOrientation.lower()
Lower(str) == [i \in DOMAIN str |-> LowerChar(str[i])]

\* the entries of s_mpStrFormatWH used, <<width, height>> in points
letter == <<612, 792>>
legal == <<612, 1008>>
f16x20 == <<1152, 1440>>

\* fpdf.fpdf.PAGE_FORMATS after CPdf.__init__ has added s_mpStrFormatWH to it
PAGE_FORMATS ==
    [name \in {"letter", "legal", "16x20"} |->
        CASE name = "letter" -> letter
          [] name = "legal"  -> legal
          [] name = "16x20"  -> f16x20]

\* fpdf.fpdf.get_page_format(fmt, self.k): the size in points of a name of the
\* table or of a pair of sizes in the document's unit; anything else raises
get_page_format(fmt) ==
    CASE fmt.kind = "name" /\ fmt.name \in DOMAIN PAGE_FORMATS ->
             [raised |-> "",
              pt |-> <<U(PAGE_FORMATS[fmt.name][1]), U(PAGE_FORMATS[fmt.name][2])>>]
      [] fmt.kind = "name" /\ fmt.name \notin DOMAIN PAGE_FORMATS ->
             [raised |-> "FPDFPageFormatException", pt |-> <<0, 0>>]
      [] fmt.kind = "size" ->
             [raised |-> "", pt |-> <<FMul(fmt.size[1], U(k)), FMul(fmt.size[2], U(k))>>]

Portrait == <<"p", "o", "r", "t", "r", "a", "i", "t">>
Landscape == <<"l", "a", "n", "d", "s", "c", "a", "p", "e">>

\* the function from strOrientation.lower() on, with the size in points pt
Oriented(strLower, pt) ==
    IF strLower \in {<<"p">>, Portrait}
    THEN [raised |-> "", ret |-> Some(<<FDiv(pt[1], U(k)), FDiv(pt[2], U(k))>>)]
    ELSE IF strLower \in {<<"l">>, Landscape}
         THEN [raised |-> "", ret |-> Some(<<FDiv(pt[2], U(k)), FDiv(pt[1], U(k))>>)]
         ELSE [raised |-> "AssertionError", ret |-> None]

\* the function after the test of fmt, with the outcome got of get_page_format
Resolved(strOrientation, got) ==
    IF got.raised # "" THEN [raised |-> got.raised, ret |-> None]
    ELSE Oriented(Lower(strOrientation), got.pt)

TuDxDyFromOrientationFmt(strOrientation, fmt) ==
    IF fmt.kind = "None" THEN [raised |-> "", ret |-> None]
    ELSE Resolved(strOrientation, get_page_format(fmt))

Orientations ==
    {<<"p">>, <<"P">>, Portrait, <<"P">> \o Tail(Portrait),
     <<"P", "O", "R", "T", "R", "A", "I", "T">>, <<"p", "o", "r", "T", "r", "a", "i", "t">>,
     <<"l">>, <<"L">>, Landscape, <<"L">> \o Tail(Landscape),
     <<"L", "A", "N", "D", "S", "C", "A", "P", "E">>,
     <<>>, <<"x">>, <<"p", "l">>, <<"p", "o", "r", "t">>, Landscape \o <<"s">>,
     <<" ", "p">>, <<"1">>}

\* a format: None, a name, or a pair of sizes in the document's unit
NoFmt == [kind |-> "None", name |-> "", size |-> <<0, 0>>]
Named(name) == [kind |-> "name", name |-> name, size |-> <<0, 0>>]
Sized(dX, dY) == [kind |-> "size", name |-> "", size |-> <<dX, dY>>]

Formats ==
    {NoFmt, Named("letter"), Named("legal"), Named("16x20"), Named("a7x"),
     Sized(U(4), U(6)), Sized(One \div 4, U(11))}

InitFmt ==
    /\ \E strOrientation \in Orientations, fmt \in Formats :
         page = [strOrientation |-> strOrientation, fmt |-> fmt, pc |-> "call",
                 raised |-> "", ret |-> None]
    /\ heap = EmptyHeap /\ log = <<>> /\ bb = Idle /\ oltb = Idle /\ draw = Idle

DoTuDxDy ==
    /\ page # Idle /\ page.pc = "call"
    /\ \E res \in {TuDxDyFromOrientationFmt(page.strOrientation, page.fmt)} :
         page' = [page EXCEPT !.pc = "done", !.raised = res.raised, !.ret = res.ret]
    /\ UNCHANGED <<heap, log, bb, oltb, draw>>

NextFmt == DoTuDxDy

SpecFmt == InitFmt /\ [][NextFmt]_vars

\* str is word in some letter case
InAnyCase(str, word) ==
    /\ Len(str) = Len(word)
    /\ \A i \in DOMAIN word :
         \/ str[i] = word[i]
         \/ \E j \in DOMAIN LowerCase : LowerCase[j] = word[i] /\ UpperCase[j] = str[i]

IsPortrait(str) == InAnyCase(str, <<"p">>) \/ InAnyCase(str, Portrait)
IsLandscape(str) == InAnyCase(str, <<"l">>) \/ InAnyCase(str, Landscape)

\* the size in points of the format of the call, when it is a known one
Known == page.fmt.kind # "None" /\ get_page_format(page.fmt).raised = ""
SizePt == get_page_format(page.fmt).pt

\* C8: for a known format of size (w, h) in points, 'p' or 'portrait' in any
\* letter case returns (w/k, h/k), 'l' or 'landscape' in any letter case returns
\* (h/k, w/k), any other orientation fails with an assertion and returns no
\* size; a None format returns None.
C8_OrientationFmt ==
    page # Idle /\ page.pc = "done" =>
        /\ page.fmt.kind = "None" => page.raised = "" /\ page.ret = None
        /\ Known /\ IsPortrait(page.strOrientation) =>
               /\ page.raised = ""
               /\ page.ret = Some(<<RoundQ(SizePt[1], k), RoundQ(SizePt[2], k)>>)
        /\ Known /\ IsLandscape(page.strOrientation) =>
               /\ page.raised = ""
               /\ page.ret = Some(<<RoundQ(SizePt[2], k), RoundQ(SizePt[1], k)>>)
        /\ Known /\ ~IsPortrait(page.strOrientation) /\ ~IsLandscape(page.strOrientation) =>
               /\ page.raised = "AssertionError"
               /\ page.ret = None

C8_Witness ==
    /\ page # Idle /\ page.pc = "done"
    /\ Known /\ page.fmt.kind = "name"
    /\ IsLandscape(page.strOrientation)
    /\ page.strOrientation # Lower(page.strOrientation)
    /\ Len(page.strOrientation) > 1
    /\ page.raised = ""
    /\ page.ret[1][1] > page.ret[1][2]

====
